---- MODULE Spec2Model ----
(***************************************************************************)
(* marpme/blog: the site configuration module src/config.ts and the        *)
(* configuration loader of the post                                         *)
(* content/blog/beautiful-configuration-for-libraries.md.                   *)
(*                                                                          *)
(* Strings are TLA+ strings, read character by character.  A JavaScript     *)
(* value is a record tagged by t: "undefined", "string", "uninitialized"    *)
(* (a const binding in its temporal dead zone) or "URL".                    *)
(***************************************************************************)
EXTENDS Integers, Sequences, FiniteSets, TLC

(***************************************************************************)
(* Bounds of the model.                                                     *)
(***************************************************************************)
MaxImporters == 2
MaxEnvChanges == 1

(***************************************************************************)
(* Strings.                                                                 *)
(***************************************************************************)
Ch(s, i) == SubSeq(s, i, i)

Take(s, n) == SubSeq(s, 1, n)

Drop(s, n) == SubSeq(s, n + 1, Len(s))

MinOf(S) == CHOOSE i \in S : \A j \in S : i <= j

MaxOf(S) == CHOOSE i \in S : \A j \in S : i >= j

\* The index of the first character of s that is in set, Len(s) + 1 if none.
IndexOfAny(s, set) ==
  LET I == {i \in 1..Len(s) : Ch(s, i) \in set}
  IN IF I = {} THEN Len(s) + 1 ELSE MinOf(I)

\* The index of the last c in s, 0 if none.
LastIndexOf(s, c) ==
  LET I == {i \in 1..Len(s) : Ch(s, i) = c}
  IN IF I = {} THEN 0 ELSE MaxOf(I)

LowerAlpha == "abcdefghijklmnopqrstuvwxyz"

UpperAlpha == "ABCDEFGHIJKLMNOPQRSTUVWXYZ"

Digits == "0123456789"

CharsOf(s) == {Ch(s, i) : i \in 1..Len(s)}

LowerChars == CharsOf(LowerAlpha)

UpperChars == CharsOf(UpperAlpha)

DigitChars == CharsOf(Digits)

IsAlpha(c) == c \in LowerChars \cup UpperChars

IsDigit(c) == c \in DigitChars

ToLowerCh(c) ==
  IF c \in UpperChars
  THEN Ch(LowerAlpha, CHOOSE i \in 1..26 : Ch(UpperAlpha, i) = c)
  ELSE c

RECURSIVE ToLower(_)
ToLower(s) == IF s = "" THEN "" ELSE ToLowerCh(Head(s)) \o ToLower(Tail(s))

DigitValue(c) == (CHOOSE i \in 1..10 : Ch(Digits, i) = c) - 1

\* The number a string of decimal digits spells.
RECURSIVE ToInt(_)
ToInt(s) ==
  IF s = "" THEN 0
  ELSE 10 * ToInt(Take(s, Len(s) - 1)) + DigitValue(Ch(s, Len(s)))

\* The shortest decimal spelling of n >= 0.
RECURSIVE IntToStr(_)
IntToStr(n) ==
  IF n < 10 THEN Ch(Digits, n + 1)
  ELSE IntToStr(n \div 10) \o Ch(Digits, (n % 10) + 1)

AllDigits(s) == \A i \in 1..Len(s) : IsDigit(Ch(s, i))

\* Leading and trailing spaces removed (the URL parser's first step).
RECURSIVE TrimSpaces(_)
TrimSpaces(s) ==
  IF s = "" THEN ""
  ELSE IF Head(s) = " " THEN TrimSpaces(Tail(s))
  ELSE IF Ch(s, Len(s)) = " " THEN TrimSpaces(Take(s, Len(s) - 1))
  ELSE s

(***************************************************************************)
(* new URL(input): the URL parser run without a base URL, as far as the    *)
(* origin depends on it: scheme, authority (userinfo, host, port).  Hosts  *)
(* are ASCII domain names (no IPv4 or IPv6 literals, no percent-escapes).  *)
(***************************************************************************)
NoPort == -1

MaxPort == 65535

Failure == [ok |-> FALSE]

SpecialSchemes == {"ftp", "http", "https", "ws", "wss"}

DefaultPort(scheme) ==
  CASE scheme = "ftp" -> 21
    [] scheme = "http" -> 80
    [] scheme = "https" -> 443
    [] scheme = "ws" -> 80
    [] scheme = "wss" -> 443
    [] OTHER -> NoPort

SchemeChars == LowerChars \cup UpperChars \cup DigitChars \cup {"+", "-", "."}

ForbiddenHostChars == {" ", "#", "/", ":", "<", ">", "?", "@", "[", "\\", "]", "^", "|", "%"}

URLRecord(scheme, host, port, path) ==
  [ok |-> TRUE, scheme |-> scheme, host |-> host, port |-> port, path |-> path]

\* The host parser: a domain is lower-cased, a forbidden character fails.
HostParse(h, special) ==
  IF \E i \in 1..Len(h) : Ch(h, i) \in ForbiddenHostChars
  THEN Failure
  ELSE [ok |-> TRUE, host |-> IF special THEN ToLower(h) ELSE h]

\* PortState keeping the port as written when it is the scheme's default.
PortStateKeepsDefault(scheme, p) ==
  IF p = "" THEN [ok |-> TRUE, port |-> NoPort]
  ELSE IF ~AllDigits(p) THEN Failure
  ELSE LET n == ToInt(p)
       IN IF n > MaxPort THEN Failure ELSE [ok |-> TRUE, port |-> n]

\* Port state: decimal digits up to the end of the authority; a port over
\* 65535 or a non-digit fails; the scheme's default port is stored as null.
PortState(scheme, p) ==
  IF p = "" THEN [ok |-> TRUE, port |-> NoPort]
  ELSE IF ~AllDigits(p) THEN Failure
  ELSE LET n == ToInt(p)
       IN IF n > MaxPort THEN Failure
          ELSE [ok |-> TRUE, port |-> IF n = DefaultPort(scheme) THEN NoPort ELSE n]

\* Host state: the host runs to the first ":", the port follows it.
HostState(scheme, hostport, special, path) ==
  LET colon == IndexOfAny(hostport, {":"})
      hostStr == Take(hostport, colon - 1)
      h == HostParse(hostStr, special)
      p == IF colon <= Len(hostport)
           THEN PortState(scheme, Drop(hostport, colon))
           ELSE [ok |-> TRUE, port |-> NoPort]
  IN IF colon <= Len(hostport) /\ hostStr = "" THEN Failure
     ELSE IF special /\ hostStr = "" THEN Failure
     ELSE IF ~h.ok \/ ~p.ok THEN Failure
     ELSE URLRecord(scheme, h.host, p.port, path)

\* Authority state: the authority ends at "/", "?", "#" (and "\" in a special
\* URL); what precedes its last "@" is userinfo.
AuthorityState(scheme, s, special) ==
  LET stop == IndexOfAny(s, {"/", "?", "#"} \cup (IF special THEN {"\\"} ELSE {}))
      auth == Take(s, stop - 1)
      at == LastIndexOf(auth, "@")
      hostport == Drop(auth, at)
  IN IF at > 0 /\ hostport = "" THEN Failure
     ELSE HostState(scheme, hostport, special, Drop(s, stop - 1))

\* Special authority slashes / ignore slashes states: every leading "/" and
\* "\" is skipped.
RECURSIVE SkipSlashes(_)
SkipSlashes(s) ==
  IF s # "" /\ Head(s) \in {"/", "\\"} THEN SkipSlashes(Tail(s)) ELSE s

IsDriveLetter(b) == Len(b) = 2 /\ IsAlpha(Ch(b, 1)) /\ Ch(b, 2) \in {":", "|"}

\* File state without a base: "file://host/path"; a drive letter is path.
FileState(rest) ==
  IF Len(rest) >= 2 /\ Ch(rest, 1) \in {"/", "\\"} /\ Ch(rest, 2) \in {"/", "\\"}
  THEN LET s == Drop(rest, 2)
           stop == IndexOfAny(s, {"/", "\\", "?", "#"})
           buffer == Take(s, stop - 1)
           h == HostParse(buffer, TRUE)
       IN IF IsDriveLetter(buffer) THEN URLRecord("file", "", NoPort, s)
          ELSE IF ~h.ok THEN Failure
          ELSE URLRecord("file", IF h.host = "localhost" THEN "" ELSE h.host,
                         NoPort, Drop(s, stop - 1))
  ELSE URLRecord("file", "", NoPort, rest)

\* The path of a URL without authority, up to its query or fragment.
OpaquePath(rest) == Take(rest, IndexOfAny(rest, {"?", "#"}) - 1)

\* Scheme start and scheme states, then the state the scheme selects.  With no
\* base URL an input without a scheme is a failure.
ParseURL(input) ==
  LET s == TrimSpaces(input)
      i == IndexOfAny(s, {c \in CharsOf(s) : c \notin SchemeChars})
      scheme == ToLower(Take(s, i - 1))
      rest == Drop(s, i)
  IN IF s = "" \/ ~IsAlpha(Head(s)) THEN Failure
     ELSE IF i > Len(s) \/ Ch(s, i) # ":" THEN Failure
     ELSE IF scheme = "file" THEN FileState(rest)
     ELSE IF scheme \in SpecialSchemes
          THEN AuthorityState(scheme, SkipSlashes(rest), TRUE)
     ELSE IF Take(rest, 2) = "//" THEN AuthorityState(scheme, Drop(rest, 2), FALSE)
     ELSE URLRecord(scheme, "", NoPort, OpaquePath(rest))

\* URL.origin: a tuple origin for ftp, http(s) and ws(s), the origin of the
\* inner URL for blob:, an opaque origin for everything else (file: included).
OpaqueOrigin == [opaque |-> TRUE]

TupleOrigin(url) ==
  [opaque |-> FALSE, scheme |-> url.scheme, host |-> url.host, port |-> url.port]

Origin(url) ==
  IF url.scheme = "blob"
  THEN LET inner == ParseURL(url.path)
       IN IF inner.ok /\ inner.scheme \in {"http", "https"}
          THEN TupleOrigin(inner)
          ELSE OpaqueOrigin
  ELSE IF url.scheme \in SpecialSchemes THEN TupleOrigin(url)
  ELSE OpaqueOrigin

\* SerializeOrigin giving an opaque origin no text.
SerializeOriginEmptyOpaque(o) ==
  IF o.opaque THEN ""
  ELSE o.scheme \o "://" \o o.host
       \o (IF o.port = NoPort THEN "" ELSE ":" \o IntToStr(o.port))

\* The serialization of an origin: "null" for an opaque one, else
\* scheme://host, then ":" and the port when the port is not null.
SerializeOrigin(o) ==
  IF o.opaque THEN "null"
  ELSE o.scheme \o "://" \o o.host
       \o (IF o.port = NoPort THEN "" ELSE ":" \o IntToStr(o.port))

(***************************************************************************)
(* JavaScript values.                                                       *)
(***************************************************************************)
Undefined == [t |-> "undefined"]

Uninitialized == [t |-> "uninitialized"]

Str(s) == [t |-> "string", v |-> s]

\* The conversion of the constructor's argument to a string.
ToUSVString(v) == IF v.t = "undefined" THEN "undefined" ELSE v.v

\* NewURL resolving what does not parse against a base, as
\* new URL(v, "http://localhost") does for an input without a scheme.
NewURLWithBase(v) ==
  LET u == ParseURL(ToUSVString(v))
  IN IF u.ok THEN u ELSE URLRecord("http", "localhost", NoPort, "/")

\* new URL(v): the parsed URL, or a failure (a TypeError is thrown).
NewURL(v) == ParseURL(ToUSVString(v))

(***************************************************************************)
(* The values import.meta.env.SITE is given, by how the value is spelt.    *)
(***************************************************************************)
AbsoluteSites ==
  { [shape |-> "absolute", scheme |-> sc, user |-> u, host |-> h, port |-> p,
     path |-> pa, query |-> q, frag |-> f] :
      sc \in {"http", "https", "HTTPS"}, u \in {"", "bob:pw"},
      h \in {"marp.me", "Marp.Me"}, p \in {"", "80", "443", "4321", "0443"},
      pa \in {"", "/blog"}, q \in {"", "?q=1"}, f \in {"", "#top"} }

NonHierarchicalSites ==
  { [shape |-> "nonhier", scheme |-> "file", rest |-> "///srv/site/index.html"],
    [shape |-> "nonhier", scheme |-> "data", rest |-> "text/plain,hi"],
    [shape |-> "nonhier", scheme |-> "mailto", rest |-> "me@marp.me"] }

BareHostSites ==
  { [shape |-> "barehost", host |-> h, port |-> p, path |-> pa] :
      h \in {"marp.me", "localhost"}, p \in {"", "4321"}, pa \in {"", "/blog"} }

RelativeSites ==
  { [shape |-> "relative", text |-> x] :
      x \in {"/blog", "blog/post", "./blog", "../blog", "//marp.me", "?q=1", "#top"} }

BrokenSites ==
  { [shape |-> "broken", text |-> x] :
      x \in {"https://", "https://me@", "https://marp.me:99999",
             "https://marp.me:8a", "https://marp me", "https//marp.me"} }

MissingSite == [shape |-> "missing"]

EmptySite == [shape |-> "empty"]

Unread == [shape |-> "unread"]

Sites ==
  AbsoluteSites \cup NonHierarchicalSites \cup BareHostSites \cup RelativeSites
    \cup BrokenSites \cup {MissingSite, EmptySite}

\* The values a later change of the environment sets.
EnvChoices ==
  { MissingSite,
    [shape |-> "barehost", host |-> "localhost", port |-> "4321", path |-> ""],
    [shape |-> "absolute", scheme |-> "https", user |-> "", host |-> "marp.me",
     port |-> "443", path |-> "/blog", query |-> "", frag |-> ""] }

\* The text of a value.
Text(site) ==
  CASE site.shape = "absolute" ->
         site.scheme \o "://" \o (IF site.user = "" THEN "" ELSE site.user \o "@")
           \o site.host \o (IF site.port = "" THEN "" ELSE ":" \o site.port)
           \o site.path \o site.query \o site.frag
    [] site.shape = "nonhier" -> site.scheme \o ":" \o site.rest
    [] site.shape = "barehost" ->
         site.host \o (IF site.port = "" THEN "" ELSE ":" \o site.port) \o site.path
    [] site.shape \in {"relative", "broken"} -> site.text
    [] OTHER -> ""

\* import.meta.env.SITE: undefined when no site is configured.
EnvValue(site) == IF site.shape = "missing" THEN Undefined ELSE Str(Text(site))

(***************************************************************************)
(* src/config.ts.                                                           *)
(***************************************************************************)
SITE_TITLE == "marpme"

SITE_DESCRIPTION ==
  "Welcome to my awesome blog, talking about web technologies and various related topics"

TWITTER_HANDLE == "@marpme_"

MY_NAME == "marpme"

ExportNames == {"SITE_TITLE", "SITE_DESCRIPTION", "TWITTER_HANDLE", "MY_NAME", "SITE_URL"}

BindingNames == ExportNames \cup {"BASE_URL"}

NoBindings == [n \in BindingNames |-> Uninitialized]

\* SITE_URL taken from the whole URL (BASE_URL.href without its userinfo).
SiteUrlWithPath(baseUrl) == SerializeOrigin(Origin(baseUrl)) \o baseUrl.path

\* BASE_URL.origin
SITE_URL(baseUrl) == SerializeOrigin(Origin(baseUrl))

\* The evaluation of the module body, top to bottom, with env.SITE = site:
\* the bindings it initializes and how it ends.  A failure of new URL throws,
\* and the statements after it do not run.
EvaluateModule(site) ==
  LET b4 == [NoBindings EXCEPT !["SITE_TITLE"] = Str(SITE_TITLE)]
      b5 == [b4 EXCEPT !["SITE_DESCRIPTION"] = Str(SITE_DESCRIPTION)]
      b7 == [b5 EXCEPT !["TWITTER_HANDLE"] = Str(TWITTER_HANDLE)]
      b8 == [b7 EXCEPT !["MY_NAME"] = Str(MY_NAME)]
      BASE_URL == NewURL(EnvValue(site))
  IN IF ~BASE_URL.ok
     THEN [status |-> "errored", bindings |-> b8, reads |-> 1]
     ELSE [status |-> "evaluated",
           bindings |-> [b8 EXCEPT !["BASE_URL"] = [t |-> "URL", url |-> BASE_URL],
                                   !["SITE_URL"] = Str(SITE_URL(BASE_URL))],
           reads |-> 1]

(***************************************************************************)
(* The post's configuration loader: Step 2 (types, defineConfig), Step 3    *)
(* (loadConfig with its rewrite) and Step 4 (the configuration file).       *)
(* A configuration value is tagged by kind: "object" (an AnyConfig, with    *)
(* its resolve.alias["@"]), "promise" (of a value) or "function" (a         *)
(* CallableConfig, with its body and the __dirname of its file).            *)
(***************************************************************************)
Obj(alias) == [kind |-> "object", alias |-> alias]

PromiseOf(v) == [kind |-> "promise", value |-> v]

Fn(body, dirname, async) ==
  [kind |-> "function", body |-> body, dirname |-> dirname, async |-> async]

\* typeof v
TypeOf(v) == IF v.kind = "function" THEN "function" ELSE "object"

\* s cut at every "/".
RECURSIVE SplitPath(_)
SplitPath(s) ==
  LET i == IndexOfAny(s, {"/"})
  IN IF i > Len(s) THEN <<s>> ELSE <<Take(s, i - 1)>> \o SplitPath(Drop(s, i))

\* The parts of a path with "", "." dropped and ".." taking the part before it.
RECURSIVE NormalizeParts(_, _)
NormalizeParts(parts, done) ==
  IF parts = <<>> THEN done
  ELSE LET h == Head(parts)
       IN IF h \in {"", "."} THEN NormalizeParts(Tail(parts), done)
          ELSE IF h = ".."
               THEN NormalizeParts(Tail(parts),
                                   IF done = <<>> THEN done
                                   ELSE SubSeq(done, 1, Len(done) - 1))
          ELSE NormalizeParts(Tail(parts), Append(done, h))

RECURSIVE JoinParts(_)
JoinParts(parts) ==
  IF parts = <<>> THEN "" ELSE "/" \o Head(parts) \o JoinParts(Tail(parts))

\* The segments from the right up to the first absolute one, joined by "/".
RECURSIVE JoinFromRight(_, _)
JoinFromRight(segments, resolved) ==
  IF segments = <<>> \/ (resolved # "" /\ Head(resolved) = "/") THEN resolved
  ELSE JoinFromRight(SubSeq(segments, 1, Len(segments) - 1),
                     IF resolved = "" THEN segments[Len(segments)]
                     ELSE segments[Len(segments)] \o "/" \o resolved)

\* path.resolve(...segments): an absolute, normalized path.  Every file of the
\* model has an absolute __dirname, so the working directory is never used.
PathResolve(segments) ==
  LET norm == JoinParts(NormalizeParts(SplitPath(JoinFromRight(segments, "")), <<>>))
  IN IF norm = "" THEN "/" ELSE norm

\* The call f(params) of a CallableConfig.  Body "step4" is the function of
\* the Step 4 file; body "fixed" ignores its input.  An async function
\* returns a promise of its result.
Call(f, params) ==
  LET r == IF f.body = "step4"
           THEN Obj(PathResolve(<<f.dirname, "./src", params.input>>))
           ELSE Obj(PathResolve(<<f.dirname, "./src">>))
  IN IF f.async THEN PromiseOf(r) ELSE r

\* await v
RECURSIVE Await(_)
Await(v) == IF v.kind = "promise" THEN Await(v.value) ELSE v

\* The input the Step 3 loader passes to a callable configuration.
LoaderInput == "any-input"

\* defineConfig calling a callable configuration instead of returning it.
defineConfigResolving(config) ==
  IF TypeOf(config) = "function" THEN Call(config, [input |-> LoaderInput]) ELSE config

\* export const defineConfig = (config: ResolvableConfig) => config;
defineConfig(config) == config

\* rewrite returning what it is given, callable or not.
rewriteUnchanged(config) == [result |-> PromiseOf(config), calls |-> <<>>]

\* async rewrite(config): the promise it returns and the calls it made.
rewrite(config) ==
  IF TypeOf(config) = "function"
  THEN [result |-> PromiseOf(Call(config, [input |-> LoaderInput])),
        calls |-> <<[input |-> LoaderInput]>>]
  ELSE [result |-> PromiseOf(config), calls |-> <<>>]

\* The directories a configuration file lies in, and its extensions.
Dirs == {"/", "/srv/app", "/home/me/lib", "/home/me/../you/lib"}

Extensions == {"ts", "mjs", "js"}

ConfigName == "your.config.filename"

ConfigFilePath(dir, ext) == PathResolve(<<dir, ConfigName \o "." \o ext>>)

\* What a configuration file in dir hands to defineConfig.
UserConfigs(dir) ==
  { Obj(PathResolve(<<dir, "./src">>)),
    PromiseOf(Obj(PathResolve(<<dir, "./src">>))),
    Fn("fixed", PathResolve(<<dir>>), FALSE),
    Fn("fixed", PathResolve(<<dir>>), TRUE),
    Fn("step4", PathResolve(<<dir>>), FALSE),
    Fn("step4", PathResolve(<<dir>>), TRUE) }

\* The configuration of the Step 4 file in dir.
StepFourConfig(dir) == Fn("step4", PathResolve(<<dir>>), FALSE)

NoValue == [kind |-> "none"]

VARIABLES
  env,       \* the value of import.meta.env.SITE now
  changes,   \* how often the environment was changed
  status,    \* of the config module: "unevaluated", "evaluated", "errored"
  bindings,  \* the module's bindings
  reads,     \* how often env.SITE was read
  siteRead,  \* the value env.SITE had when the module read it
  observed,  \* per importer, what its import of the module gave it
  cfgDir,    \* the directory of the configuration file
  cfgExt,    \* the extension of the configuration file
  userConfig,\* what the configuration file passes to defineConfig
  exported,  \* the file's default export
  lpc,       \* the loader: "start", "loaded", "rewritten", "done"
  pending,   \* the promise rewrite returned
  calls,     \* the parameters of each call of the exported function
  config,    \* loadConfig's config
  sources    \* loadConfig's sources

siteVars == <<env, changes, status, bindings, reads, siteRead, observed>>

loaderVars == <<cfgDir, cfgExt, userConfig, exported, lpc, pending, calls, config, sources>>

vars == <<siteVars, loaderVars>>

Importers == 1..MaxImporters

NotImported == [t |-> "none"]

ImportError == [t |-> "error"]

\* LoadModule without the module cache: every import evaluates the body.
LoadModuleAfresh(st, b, site) == EvaluateModule(site)

\* The module an import resolves to: a module is evaluated on its first
\* import only, every later import gets the same module record, an errored one
\* included.
LoadModule(st, b, site) ==
  IF st = "unevaluated"
  THEN EvaluateModule(site)
  ELSE [status |-> st, bindings |-> b, reads |-> 0]

\* Namespace handing out the bindings whatever the evaluation's outcome.
NamespaceOfBindings(m) ==
  [t |-> "namespace", exports |-> [n \in ExportNames |-> m.bindings[n]]]

\* What an importer gets of a module record: its exports when it evaluated,
\* the evaluation's error otherwise.
Namespace(m) ==
  IF m.status = "evaluated"
  THEN [t |-> "namespace", exports |-> [n \in ExportNames |-> m.bindings[n]]]
  ELSE ImportError

SiteStart ==
  /\ changes = 0
  /\ status = "unevaluated"
  /\ bindings = NoBindings
  /\ reads = 0
  /\ siteRead = Unread
  /\ observed = [i \in Importers |-> NotImported]

LoaderStart ==
  /\ exported = NoValue
  /\ lpc = "start"
  /\ pending = NoValue
  /\ calls = <<>>
  /\ config = NoValue
  /\ sources = <<>>

\* The site is built with some SITE; no configuration file is being loaded.
Init ==
  /\ env \in Sites
  /\ SiteStart
  /\ cfgDir = "/"
  /\ cfgExt = "ts"
  /\ userConfig = StepFourConfig("/")
  /\ LoaderStart

\* A library loads some configuration file; the site is not being built.
LoaderInit ==
  /\ env = MissingSite
  /\ SiteStart
  /\ cfgDir \in Dirs
  /\ cfgExt \in Extensions
  /\ userConfig \in UserConfigs(cfgDir)
  /\ LoaderStart

\* import { ... } from "config" in module i of the site.
Import(i) ==
  /\ observed[i] = NotImported
  /\ LET m == LoadModule(status, bindings, env)
     IN /\ status' = m.status
        /\ bindings' = m.bindings
        /\ reads' = reads + m.reads
        /\ siteRead' = IF m.reads > 0 THEN env ELSE siteRead
        /\ observed' = [observed EXCEPT ![i] = Namespace(m)]
  /\ UNCHANGED <<env, changes, loaderVars>>

\* The environment's SITE is set to another value.
SetEnv(site) ==
  /\ changes < MaxEnvChanges
  /\ site # env
  /\ env' = site
  /\ changes' = changes + 1
  /\ UNCHANGED <<status, bindings, reads, siteRead, observed, loaderVars>>

\* loadConfig finds the configuration file and imports it: the file's body
\* runs, its default export is defineConfig(...) of its configuration.
LoadFile ==
  /\ lpc = "start"
  /\ exported' = defineConfig(userConfig)
  /\ sources' = <<ConfigFilePath(cfgDir, cfgExt)>>
  /\ lpc' = "loaded"
  /\ UNCHANGED <<cfgDir, cfgExt, userConfig, pending, calls, config, siteVars>>

\* loadConfig hands the default export to the source's rewrite.
Rewrite ==
  /\ lpc = "loaded"
  /\ LET r == rewrite(exported)
     IN /\ pending' = r.result
        /\ calls' = calls \o r.calls
  /\ lpc' = "rewritten"
  /\ UNCHANGED <<cfgDir, cfgExt, userConfig, exported, config, sources, siteVars>>

\* loadConfig awaits the rewritten configuration and returns {config, sources}.
Settle ==
  /\ lpc = "rewritten"
  /\ config' = Await(pending)
  /\ lpc' = "done"
  /\ UNCHANGED <<cfgDir, cfgExt, userConfig, exported, pending, calls, sources, siteVars>>

Next ==
  \/ \E i \in Importers : Import(i)
  \/ \E site \in EnvChoices : SetEnv(site)

LoaderNext ==
  \/ LoadFile
  \/ Rewrite
  \/ Settle

Spec == Init /\ [][Next]_vars

LoaderSpec == LoaderInit /\ [][LoaderNext]_vars

(***************************************************************************)
(* The claims.                                                              *)
(***************************************************************************)
Evaluated == status = "evaluated"

WasRead == status # "unevaluated"

SiteUrl == bindings["SITE_URL"]

NoImporterHasExports == \A i \in Importers : observed[i].t # "namespace"

\* The scheme, host and port of a value as they are written in it.
WrittenOrigin(site) ==
  IF site.shape = "absolute"
  THEN site.scheme \o "://" \o site.host
         \o (IF site.port = "" THEN "" ELSE ":" \o site.port)
  ELSE site.scheme \o ":" \o (IF Take(site.rest, 2) = "//" THEN "//" ELSE "")

\* The port part of the origin of an http(s) value: none for no port and for
\* the scheme's own port (80 for http, 443 for https), else the port in
\* decimal without leading zeros.
OriginPort(site) ==
  LET own == IF ToLower(site.scheme) = "http" THEN 80 ELSE 443
  IN IF site.port = "" \/ ToInt(site.port) = own THEN ""
     ELSE ":" \o IntToStr(ToInt(site.port))

C3_ReadOnceImmutable ==
  /\ [](Evaluated => reads = 1)
  /\ [][Evaluated => (bindings' = bindings /\ status' = status /\ reads' = reads)]_vars

\* C3's case: every importer has imported the evaluated module and the
\* environment's SITE is no longer the value the module read.
C3_Witness ==
  /\ Evaluated
  /\ changes > 0
  /\ EnvValue(env) # EnvValue(siteRead)
  /\ \A i \in Importers : observed[i].t = "namespace"

\* C4: whenever the module has evaluated, each of its five exports is a
\* non-empty string.
C4_ExportsNonEmpty ==
  Evaluated =>
    \A n \in ExportNames : bindings[n].t = "string" /\ Len(bindings[n].v) > 0

\* C4's case: the module has evaluated with a SITE whose origin is opaque.
C4_Witness ==
  /\ Evaluated
  /\ siteRead.shape = "nonhier"
  /\ SiteUrl = Str("null")

\* C8: an importer has all five exports or none of them, and none when the
\* evaluation failed.
C8_AllOrNothing ==
  /\ \A i \in Importers :
       LET available == IF observed[i].t = "namespace"
                        THEN {n \in ExportNames : observed[i].exports[n].t = "string"}
                        ELSE {}
       IN available = {} \/ available = ExportNames
  /\ status = "errored" => NoImporterHasExports

\* C8's case: the evaluation failed at new URL with the four constants
\* initialized, and every importer got the error.
C8_Witness ==
  /\ status = "errored"
  /\ bindings["SITE_TITLE"] = Str(SITE_TITLE)
  /\ bindings["MY_NAME"] = Str(MY_NAME)
  /\ SiteUrl = Uninitialized
  /\ \A i \in Importers : observed[i] = ImportError

\* Whether sub occurs in s.
Contains(s, sub) ==
  \E i \in 1..(Len(s) - Len(sub) + 1) : SubSeq(s, i, i + Len(sub) - 1) = sub

\* C9: every http(s) SITE that has the scheme, host and port of the SITE the
\* module read, whatever its userinfo, path, query and fragment, gives the same
\* SITE_URL, and none of those four parts occurs in SITE_URL.
C9_OriginIgnoresRest ==
  (Evaluated /\ siteRead.shape = "absolute") =>
    /\ \A other \in AbsoluteSites :
         (other.scheme = siteRead.scheme /\ other.host = siteRead.host
          /\ other.port = siteRead.port)
           => EvaluateModule(other).bindings["SITE_URL"] = SiteUrl
    /\ \A part \in {siteRead.user, siteRead.path, siteRead.query, siteRead.frag} :
         part # "" => ~Contains(SiteUrl.v, part)

\* C9's case: a SITE with credentials, a path, a query and a fragment has
\* been evaluated.
C9_Witness ==
  /\ Evaluated
  /\ siteRead.shape = "absolute"
  /\ siteRead.scheme = "http" /\ siteRead.port = "4321"
  /\ siteRead.user # "" /\ siteRead.path # "" /\ siteRead.query # ""
  /\ siteRead.frag # ""
  /\ SiteUrl = Str("http://marp.me:4321")

\* C5: the configuration file's default export is the very value it passed to
\* defineConfig: a callable is still the callable and was not called, a
\* promise is still the promise.
C5_DefineConfigIdentity ==
  lpc # "start" => (exported = userConfig /\ (lpc = "loaded" => calls = <<>>))

\* C5's case: a file has exported an async callable, and it was not called.
C5_Witness == lpc = "loaded" /\ userConfig.kind = "function" /\ userConfig.async

\* C6 as stated: loading the Step 4 file yields resolve.alias["@"] =
\* <dir>/src/my-input and the one loaded file as sources.
C6_StepFiveOutput ==
  (lpc = "done" /\ userConfig = StepFourConfig(cfgDir) /\ cfgExt = "ts")
    => /\ config = Obj(PathResolve(<<cfgDir, "src", "my-input">>))
       /\ sources = <<ConfigFilePath(cfgDir, "ts")>>

\* C7: a callable configuration is called once with {input} and the awaited
\* result is the configuration, any other configuration is the configuration
\* as it is (awaited), and the configuration is never a function.
C7_RewriteResolves ==
  lpc = "done" =>
    /\ config.kind = "object"
    /\ userConfig.kind = "function"
         => /\ calls = <<[input |-> LoaderInput]>>
            /\ config = Await(Call(userConfig, [input |-> LoaderInput]))
    /\ userConfig.kind # "function"
         => /\ calls = <<>>
            /\ config = Await(userConfig)

\* C7's case: the loader has returned the configuration of an async callable.
C7_Witness ==
  /\ lpc = "done"
  /\ userConfig.kind = "function" /\ userConfig.async
  /\ Len(calls) = 1
  /\ config.kind = "object"
====
